---- MODULE Spec2Model ----
(***************************************************************************)
(* Understand.AI: the phase-progression session model.                     *)
(*                                                                         *)
(*   lib/memory/session-manager.ts   TracerMemoryManager (the store)       *)
(*   app/api/chat/route.ts           POST (the chat entry point)           *)
(*   app/page.tsx                    Home (the page that sends the chats)  *)
(*                                                                         *)
(* JavaScript objects are references: the manager's Map holds references   *)
(* to ChatContext objects, a ChatContext holds a reference to its          *)
(* ProjectSession object, and the POST handler keeps a reference to the    *)
(* ProjectSession across its awaits.  The model therefore keeps two heaps  *)
(* (ctx, pss) and stores object ids where the code stores references.      *)
(* Objects no longer referenced are reclaimed, as by the JS collector.     *)
(***************************************************************************)
EXTENDS Integers, Sequences, FiniteSets, TLC

(***************************************************************************)
(* Bounds of the model.                                                    *)
(***************************************************************************)
MaxCap == 2
MaxCount == 4
MaxChat == 8
DefaultCap == 50
MaxTime == 1
MaxCtx == 2
MaxPs == 2
NumReq == 2
NumVals == 2
MaxBody == 2

(***************************************************************************)
(* Value domains.                                                          *)
(***************************************************************************)
Phases == {"requirements", "design", "tasks", "complete"}

DocPhases == {"requirements", "design", "tasks"}

Roles == {"user", "assistant", "system"}

\* undefined / null
None == 0

\* document payloads and generated documents
Payloads == 1 .. NumVals

\* a string is a sequence of tokens; "" is <<>>
UserTexts == {<<>>, <<"hi">>}

Replies == {<<"reply">>}

ProjectNames == {"New Project", "Other"}

CapValues == 0 .. MaxCap

Times == 0 .. MaxTime

\* `session-${Date.now()}`
MintKey(t) == "session-" \o ToString(t)

SuppliedKeys == {"k1", "k2"}

Keys == SuppliedKeys \cup {MintKey(t) : t \in Times}

\* the id of a chat of the page: Date.now().toString()
ChatIds == {ToString(t) : t \in Times}

CtxIds == 1 .. MaxCtx

PsIds == 1 .. MaxPs

ReqIds == 1 .. NumReq

VARIABLES
  sessions,               \* TracerMemoryManager.sessions: key -> ChatContext reference (None = absent)
  ctx,                    \* heap of ChatContext objects
  pss,                    \* heap of ProjectSession objects
  maxMessagesPerSession,  \* TracerMemoryManager.maxMessagesPerSession
  now,                    \* Date.now(), in hours
  req,                    \* the POST invocations in flight
  exported,               \* the reference a caller got from exportSession
  called,                 \* history: the setters called so far, per session key
  failed,                 \* history: the phase whose generation threw in the
                          \* last request served on a key ("" when it did not)
  returned,               \* what the last direct call of the manager returned
  client                  \* the page (app/page.tsx): the state of Home

vars == <<sessions, ctx, pss, maxMessagesPerSession, now, req, exported,
          called, failed, returned, client>>

\* the variables that record history only
hist == <<called, failed>>

(***************************************************************************)
(* The heap.                                                               *)
(***************************************************************************)
\* Fields no operation reads are left out: the timestamp of a log entry,
\* metadata.createdAt, ProjectSession.sessionId, questionsAsked, userAnswers
\* and metadata.lastPhaseChange.  metadata.updatedAt is kept on both objects.

\* a ChatContext slot that holds no object
NullCtx ==
  [alloc |-> FALSE, sessionId |-> "", conversationHistory |-> <<>>,
   projectSession |-> None, updatedAt |-> 0, messageCount |-> 0]

\* a ProjectSession slot that holds no object
NullPs ==
  [alloc |-> FALSE, projectName |-> "", currentPhase |-> "requirements",
   requirements |-> None, design |-> None, tasks |-> None,
   conversationHistory |-> <<>>, updatedAt |-> 0]

\* the store as one value: the Map and the objects reachable from it
Store == [sessions |-> sessions, ctx |-> ctx, pss |-> pss]

FreeCtx(st) == {i \in CtxIds : ~st.ctx[i].alloc}

FreePs(st) == {j \in PsIds : ~st.pss[j].alloc}

Least(S) == CHOOSE x \in S : \A y \in S : x <= y

Min(a, b) == IF a < b THEN a ELSE b

Max(a, b) == IF a > b THEN a ELSE b

\* Array.prototype.slice(start): a negative start counts from the end,
\* and -0 is 0
JsSlice(s, start) ==
  LET len == Len(s)
      k == IF start < 0 THEN Max(len + start, 0) ELSE Min(start, len)
  IN  SubSeq(s, k + 1, len)

(***************************************************************************)
(* TracerMemoryManager, lib/memory/session-manager.ts.  Each operator maps *)
(* a store to the store after the call.                                    *)
(***************************************************************************)
Has(st, sessionId) == st.sessions[sessionId] # None

\* this.sessions.get(sessionId), for a key that is present
Ctx(st, sessionId) == st.ctx[st.sessions[sessionId]]

\* createSession with a record that already counts one message
createSessionCounted(st, sessionId) ==
  LET id == Least(FreeCtx(st))
  IN  [st EXCEPT !.ctx[id] = [alloc |-> TRUE, sessionId |-> sessionId,
                              conversationHistory |-> <<>>,
                              projectSession |-> None,
                              updatedAt |-> now, messageCount |-> 1],
                 !.sessions[sessionId] = id]

createSession(st, sessionId) ==
  LET id == Least(FreeCtx(st))
  IN  [st EXCEPT !.ctx[id] = [alloc |-> TRUE, sessionId |-> sessionId,
                              conversationHistory |-> <<>>,
                              projectSession |-> None,
                              updatedAt |-> now, messageCount |-> 0],
                 !.sessions[sessionId] = id]

getSession(st, sessionId) ==
  IF Has(st, sessionId) THEN st ELSE createSession(st, sessionId)

\* createSession needs a free slot of the bounded heap
CanGetSession(st, sessionId) == Has(st, sessionId) \/ FreeCtx(st) # {}

\* addMessage recording every entry with the role system
addMessageAsSystem(st, sessionId, role, content) ==
  LET st1 == getSession(st, sessionId)
      id == st1.sessions[sessionId]
      pushed == Append(st1.ctx[id].conversationHistory,
                       [role |-> "system", content |-> content])
      trimmed == IF Len(pushed) > maxMessagesPerSession
                 THEN JsSlice(pushed, 0 - maxMessagesPerSession)
                 ELSE pushed
  IN  [st1 EXCEPT !.ctx[id].conversationHistory = trimmed,
                  !.ctx[id].updatedAt = now,
                  !.ctx[id].messageCount = @ + 1]

\* addMessage putting the entry at the front of the log
addMessageFirst(st, sessionId, role, content) ==
  LET st1 == getSession(st, sessionId)
      id == st1.sessions[sessionId]
      pushed == <<[role |-> role, content |-> content]>>
                  \o st1.ctx[id].conversationHistory
      trimmed == IF Len(pushed) > maxMessagesPerSession
                 THEN JsSlice(pushed, 0 - maxMessagesPerSession)
                 ELSE pushed
  IN  [st1 EXCEPT !.ctx[id].conversationHistory = trimmed,
                  !.ctx[id].updatedAt = now,
                  !.ctx[id].messageCount = @ + 1]

addMessage(st, sessionId, role, content) ==
  LET st1 == getSession(st, sessionId)
      id == st1.sessions[sessionId]
      pushed == Append(st1.ctx[id].conversationHistory,
                       [role |-> role, content |-> content])
      trimmed == IF Len(pushed) > maxMessagesPerSession
                 THEN JsSlice(pushed, 0 - maxMessagesPerSession)
                 ELSE pushed
  IN  [st1 EXCEPT !.ctx[id].conversationHistory = trimmed,
                  !.ctx[id].updatedAt = now,
                  !.ctx[id].messageCount = @ + 1]

\* the lookup of the mutating operations, which creates a missing record
sessionsGetOrCreate(st, sessionId) == getSession(st, sessionId)

\* this.sessions.get(sessionId) of the query operations: the store after
\* the lookup
sessionsGet(st, sessionId) == st

getConversationHistory(st, sessionId) ==
  IF Has(st, sessionId) THEN Ctx(st, sessionId).conversationHistory ELSE <<>>

getProjectSession(st, sessionId) ==
  IF Has(st, sessionId) THEN Ctx(st, sessionId).projectSession ELSE None

\* a Project Session that starts in the phase design
initializeProjectSessionInDesign(st, sessionId, projectName) ==
  LET st1 == getSession(st, sessionId)
      id == st1.sessions[sessionId]
      j == Least(FreePs(st1))
  IN  [st1 EXCEPT !.pss[j] = [alloc |-> TRUE, projectName |-> projectName,
                              currentPhase |-> "design",
                              requirements |-> None, design |-> None,
                              tasks |-> None, conversationHistory |-> <<>>,
                              updatedAt |-> now],
                  !.ctx[id].projectSession = j]

\* a Project Session that starts with a Requirements payload
initializeProjectSessionWithPayload(st, sessionId, projectName) ==
  LET st1 == getSession(st, sessionId)
      id == st1.sessions[sessionId]
      j == Least(FreePs(st1))
  IN  [st1 EXCEPT !.pss[j] = [alloc |-> TRUE, projectName |-> projectName,
                              currentPhase |-> "requirements",
                              requirements |-> 1, design |-> None,
                              tasks |-> None, conversationHistory |-> <<>>,
                              updatedAt |-> now],
                  !.ctx[id].projectSession = j]

initializeProjectSession(st, sessionId, projectName) ==
  LET st1 == getSession(st, sessionId)
      id == st1.sessions[sessionId]
      \* the object being replaced is still allocated while the new one is built
      j == Least(FreePs(st1))
  IN  [st1 EXCEPT !.pss[j] = [alloc |-> TRUE, projectName |-> projectName,
                              currentPhase |-> "requirements",
                              requirements |-> None, design |-> None,
                              tasks |-> None, conversationHistory |-> <<>>,
                              updatedAt |-> now],
                  !.ctx[id].projectSession = j]

CanInitializeProjectSession(st, sessionId) ==
  /\ CanGetSession(st, sessionId)
  /\ FreePs(st) # {}

\* updateProjectPhase advancing from the phase the store holds, whatever
\* phase the caller passes
updateProjectPhaseFromStored(st, sessionId, phase) ==
  LET st1 == getSession(st, sessionId)
      j == Ctx(st1, sessionId).projectSession
  IN  IF j # None
      THEN [st1 EXCEPT !.pss[j].currentPhase =
                          CASE @ = "requirements" -> "design"
                            [] @ = "design" -> "tasks"
                            [] OTHER -> "complete",
                       !.pss[j].updatedAt = now]
      ELSE st1

\* updateProjectPhase stamping the time without writing the phase
updateProjectPhaseKeepsPhase(st, sessionId, phase) ==
  LET st1 == getSession(st, sessionId)
      j == Ctx(st1, sessionId).projectSession
  IN  IF j # None
      THEN [st1 EXCEPT !.pss[j].updatedAt = now]
      ELSE st1

updateProjectPhase(st, sessionId, phase) ==
  LET st1 == getSession(st, sessionId)
      j == Ctx(st1, sessionId).projectSession
  IN  IF j # None
      THEN [st1 EXCEPT !.pss[j].currentPhase = phase,
                       !.pss[j].updatedAt = now]
      ELSE st1

\* setRequirements keeping a payload that is already stored
setRequirementsKeepsFirst(st, sessionId, requirements) ==
  LET st1 == getSession(st, sessionId)
      j == Ctx(st1, sessionId).projectSession
  IN  IF j # None
      THEN [st1 EXCEPT !.pss[j].requirements =
                          IF @ = None THEN requirements ELSE @,
                       !.pss[j].updatedAt = now]
      ELSE st1

setRequirements(st, sessionId, requirements) ==
  LET st1 == getSession(st, sessionId)
      j == Ctx(st1, sessionId).projectSession
  IN  IF j # None
      THEN [st1 EXCEPT !.pss[j].requirements = requirements,
                       !.pss[j].updatedAt = now]
      ELSE st1

\* setDesign writing the field of setRequirements
setDesignWrongField(st, sessionId, design) ==
  LET st1 == getSession(st, sessionId)
      j == Ctx(st1, sessionId).projectSession
  IN  IF j # None
      THEN [st1 EXCEPT !.pss[j].requirements = design,
                       !.pss[j].updatedAt = now]
      ELSE st1

setDesign(st, sessionId, design) ==
  LET st1 == getSession(st, sessionId)
      j == Ctx(st1, sessionId).projectSession
  IN  IF j # None
      THEN [st1 EXCEPT !.pss[j].design = design,
                       !.pss[j].updatedAt = now]
      ELSE st1

setTasks(st, sessionId, tasks) ==
  LET st1 == getSession(st, sessionId)
      j == Ctx(st1, sessionId).projectSession
  IN  IF j # None
      THEN [st1 EXCEPT !.pss[j].tasks = tasks,
                       !.pss[j].updatedAt = now]
      ELSE st1

\* !!x of a payload: an object is truthy, undefined is not
Truthy(x) == x # None

\* isPhaseComplete with the design case testing the tasks payload
isPhaseCompleteShifted(st, sessionId, phase) ==
  IF ~Has(st, sessionId) THEN FALSE
  ELSE IF Ctx(st, sessionId).projectSession = None THEN FALSE
  ELSE LET ps == st.pss[Ctx(st, sessionId).projectSession]
       IN  CASE phase = "requirements" -> Truthy(ps.requirements)
             [] phase = "design" -> Truthy(ps.tasks)
             [] phase = "tasks" -> Truthy(ps.tasks)
             [] phase = "complete" ->
                  Truthy(ps.requirements) /\ Truthy(ps.design) /\ Truthy(ps.tasks)
             [] OTHER -> FALSE

\* isPhaseComplete derived from the phase field instead of the payloads
isPhaseCompleteByPhase(st, sessionId, phase) ==
  IF ~Has(st, sessionId) THEN FALSE
  ELSE IF Ctx(st, sessionId).projectSession = None THEN FALSE
  ELSE LET ps == st.pss[Ctx(st, sessionId).projectSession]
       IN  CASE phase = "requirements" -> ps.currentPhase # "requirements"
             [] phase = "design" -> ps.currentPhase \in {"tasks", "complete"}
             [] phase = "tasks" -> ps.currentPhase = "complete"
             [] phase = "complete" -> ps.currentPhase = "complete"
             [] OTHER -> FALSE

isPhaseComplete(st, sessionId, phase) ==
  IF ~Has(st, sessionId) THEN FALSE
  ELSE IF Ctx(st, sessionId).projectSession = None THEN FALSE
  ELSE LET ps == st.pss[Ctx(st, sessionId).projectSession]
       IN  CASE phase = "requirements" -> Truthy(ps.requirements)
             [] phase = "design" -> Truthy(ps.design)
             [] phase = "tasks" -> Truthy(ps.tasks)
             [] phase = "complete" ->
                  Truthy(ps.requirements) /\ Truthy(ps.design) /\ Truthy(ps.tasks)
             [] OTHER -> FALSE

\* getContextSummary of a key without a record: "No context available"
NoSummary ==
  [available |-> FALSE, sessionId |-> "", messages |-> 0, projectName |-> "",
   currentPhase |-> "", requirements |-> FALSE, design |-> FALSE,
   tasks |-> FALSE]

\* the lines of the summary text as fields: Session, Messages, Project,
\* Phase and the three "generated" marks (questionsAsked is not modelled)
getContextSummary(st, sessionId) ==
  IF ~Has(st, sessionId) THEN NoSummary
  ELSE LET j == Ctx(st, sessionId).projectSession
       IN  [available |-> TRUE,
            sessionId |-> sessionId,
            messages |-> Ctx(st, sessionId).messageCount,
            projectName |-> IF j # None THEN st.pss[j].projectName ELSE "",
            currentPhase |-> IF j # None THEN st.pss[j].currentPhase ELSE "",
            requirements |-> j # None /\ Truthy(st.pss[j].requirements),
            design |-> j # None /\ Truthy(st.pss[j].design),
            tasks |-> j # None /\ Truthy(st.pss[j].tasks)]

\* clearSession emptying the Map
clearSessionAll(st, sessionId) == [st EXCEPT !.sessions = [k \in Keys |-> None]]

clearSession(st, sessionId) == [st EXCEPT !.sessions[sessionId] = None]

clearAllSessions(st) == [st EXCEPT !.sessions = [k \in Keys |-> None]]

getActiveSessions(st) == {k \in Keys : Has(st, k)}

\* a cutoff that also deletes a session updated exactly at the cutoff
StaleInclusive(st, hoursOld) ==
  {k \in Keys : Has(st, k) /\ Ctx(st, k).updatedAt <= now - hoursOld}

\* the sessions pruneOldSessions(hoursOld) deletes
Stale(st, hoursOld) ==
  {k \in Keys : Has(st, k) /\ Ctx(st, k).updatedAt < now - hoursOld}

pruneOldSessions(st, hoursOld) ==
  [st EXCEPT !.sessions = [k \in Keys |->
                             IF k \in Stale(st, hoursOld) THEN None ELSE @[k]]]

pruneOldSessionsResult(st, hoursOld) == Cardinality(Stale(st, hoursOld))

(***************************************************************************)
(* State after construction: an empty Map, any configured cap.             *)
(***************************************************************************)
\* generatedDocument = null; a response without a document field
NoDocument == [type |-> "", content |-> None]

\* a response without a projectSession field
NoSnapshot ==
  [projectName |-> "", currentPhase |-> "", requirements |-> None,
   design |-> None, tasks |-> None]

\* no JSON body (the 400 response, no response yet)
NoResponseData ==
  [content |-> <<>>, document |-> NoDocument, projectSession |-> NoSnapshot]

\* JSON.stringify(projectSession)
Snapshot(st, j) ==
  [projectName |-> st.pss[j].projectName,
   currentPhase |-> st.pss[j].currentPhase,
   requirements |-> st.pss[j].requirements,
   design |-> st.pss[j].design,
   tasks |-> st.pss[j].tasks]

\* JSON.stringify of the Project Session the store holds for a key
SnapshotOf(st, sessionId) ==
  IF getProjectSession(st, sessionId) = None THEN NoSnapshot
  ELSE Snapshot(st, getProjectSession(st, sessionId))

\* what the store held for a key: nothing
NoRecord ==
  [present |-> FALSE, conversationHistory |-> <<>>, messageCount |-> 0,
   projectSession |-> NoSnapshot]

\* what the store holds for a key
RecordOf(st, sessionId) ==
  IF ~Has(st, sessionId) THEN NoRecord
  ELSE [present |-> TRUE,
        conversationHistory |-> getConversationHistory(st, sessionId),
        messageCount |-> Ctx(st, sessionId).messageCount,
        projectSession |-> SnapshotOf(st, sessionId)]

\* a call that returns nothing; count is the number pruneOldSessions
\* returns, record what the ChatContext getSession or exportSession returns
\* holds
NoReturn == [op |-> "", count |-> 0, record |-> NoRecord]

\* no request of the page is under way.  messages is the length of the
\* message list in the body, userMessage the text of its last message, r the
\* POST invocation that serves the request, chat the chat it was sent from.
NoFetch == [state |-> "none", r |-> None, messages |-> 0, userMessage |-> <<>>,
            chat |-> ""]

\* Home after its first render: no chat selected, nothing typed or sent.
\* servedBy records, per chat, the session key under which the server
\* handled the last request sent from that chat ("" before the first).
Home ==
  [chats |-> [c \in ChatIds |-> [exists |-> FALSE, messages |-> <<>>]],
   currentChatId |-> "", messages |-> <<>>, isLoading |-> FALSE,
   fetch |-> NoFetch,
   servedBy |-> [c \in ChatIds |-> ""]]

\* a POST invocation slot that holds no request.  apiKey, messages, supplied
\* and userMessage record what the request came with (the credential being
\* configured, messages.length, body.sessionId, the text of the last
\* message); stored records what the store held for the session key when the
\* handler resolved it.
IdleReq ==
  [pc |-> "idle", sessionId |-> "", projectSession |-> None,
   reply |-> <<>>, response |-> <<>>, currentPhase |-> "",
   generation |-> "none", generatedDocument |-> NoDocument,
   status |-> 0, responseData |-> NoResponseData,
   before |-> NoSnapshot, retryOf |-> "",
   apiKey |-> FALSE, messages |-> 0, supplied |-> "", userMessage |-> <<>>,
   stored |-> NoRecord]

\* new TracerMemoryManager(cap): this.sessions = new Map()
Constructed(cap) ==
  /\ sessions = [k \in Keys |-> None]
  /\ ctx = [i \in CtxIds |-> NullCtx]
  /\ pss = [j \in PsIds |-> NullPs]
  /\ maxMessagesPerSession = cap
  /\ now = 0
  /\ req = [r \in ReqIds |-> IdleReq]
  /\ exported = None
  /\ called = [k \in Keys |-> {}]
  /\ failed = [k \in Keys |-> ""]
  /\ returned = NoReturn
  /\ client = Home

\* a manager constructed with any cap
Init == \E cap \in CapValues : Constructed(cap)

\* the application: getMemoryManager() constructs the manager with the default cap
InitApp == Constructed(DefaultCap)

\* The next state: the store st, the invocations q and the exported
\* reference ex, with the objects nothing refers to any more reclaimed.
Commit(st, q, ex) ==
  LET liveCtx == ({st.sessions[k] : k \in Keys} \cup {ex}) \ {None}
      c2 == [i \in CtxIds |-> IF i \in liveCtx THEN st.ctx[i] ELSE NullCtx]
      livePs == ({c2[i].projectSession : i \in CtxIds}
                   \cup {q[r].projectSession : r \in ReqIds}) \ {None}
      p2 == [j \in PsIds |-> IF j \in livePs THEN st.pss[j] ELSE NullPs]
  IN  /\ sessions' = st.sessions
      /\ ctx' = c2
      /\ pss' = p2
      /\ req' = q
      /\ exported' = ex

\* no POST invocation is between its start and its response
Idle == \A r \in ReqIds : req[r].pc = "idle"

\* the keys a caller of the manager passes: one it chose or one in the Map
OpKeys == SuppliedKeys \cup getActiveSessions(Store)

\* total messages recorded for a key so far (0 for an absent key)
Count(st, k) == IF Has(st, k) THEN Ctx(st, k).messageCount ELSE 0

(***************************************************************************)
(* Direct calls of the manager's operations.                               *)
(***************************************************************************)
\* createSession(k) called directly: the Map entry is set to a new object
\* while the one it held, if any, is still allocated
CreateSession(k) ==
  /\ FreeCtx(Store) # {}
  /\ Commit(createSession(Store, k), req, exported)
  /\ UNCHANGED <<client, maxMessagesPerSession, now, called, failed>>
  /\ returned' = [NoReturn EXCEPT !.op = "createSession",
                                  !.record = RecordOf(createSession(Store, k), k)]

GetSession(k) ==
  /\ CanGetSession(Store, k)
  /\ Commit(getSession(Store, k), req, exported)
  /\ UNCHANGED <<client, maxMessagesPerSession, now, called, failed>>
  /\ returned' = [NoReturn EXCEPT !.op = "getSession",
                                  !.record = RecordOf(getSession(Store, k), k)]

AddMessage(k, role, content) ==
  /\ CanGetSession(Store, k)
  /\ Count(Store, k) < MaxCount
  /\ Commit(addMessage(Store, k, role, content), req, exported)
  /\ UNCHANGED <<client, maxMessagesPerSession, now, called, failed>>
  /\ returned' = NoReturn

InitializeProjectSession(k, projectName) ==
  /\ CanInitializeProjectSession(Store, k)
  /\ Commit(initializeProjectSession(Store, k, projectName), req, exported)
  /\ UNCHANGED <<client, maxMessagesPerSession, now, called, failed>>
  /\ returned' = NoReturn

UpdateProjectPhase(k, phase) ==
  /\ CanGetSession(Store, k)
  /\ Commit(updateProjectPhase(Store, k, phase), req, exported)
  /\ UNCHANGED <<client, maxMessagesPerSession, now, called, failed>>
  /\ returned' = NoReturn

SetRequirements(k, v) ==
  /\ CanGetSession(Store, k)
  /\ Commit(setRequirements(Store, k, v), req, exported)
  /\ called' = [called EXCEPT ![k] = @ \cup {"requirements"}]
  /\ UNCHANGED <<client, maxMessagesPerSession, now, failed>>
  /\ returned' = NoReturn

SetDesign(k, v) ==
  /\ CanGetSession(Store, k)
  /\ Commit(setDesign(Store, k, v), req, exported)
  /\ called' = [called EXCEPT ![k] = @ \cup {"design"}]
  /\ UNCHANGED <<client, maxMessagesPerSession, now, failed>>
  /\ returned' = NoReturn

SetTasks(k, v) ==
  /\ CanGetSession(Store, k)
  /\ Commit(setTasks(Store, k, v), req, exported)
  /\ called' = [called EXCEPT ![k] = @ \cup {"tasks"}]
  /\ UNCHANGED <<client, maxMessagesPerSession, now, failed>>
  /\ returned' = NoReturn

ClearSession(k) ==
  /\ Commit(clearSession(Store, k), req, exported)
  /\ UNCHANGED <<client, maxMessagesPerSession, now, called, failed>>
  /\ returned' = [NoReturn EXCEPT !.op = "clearSession"]

ClearAllSessions ==
  /\ Commit(clearAllSessions(Store), req, exported)
  /\ UNCHANGED <<client, maxMessagesPerSession, now, called, failed>>
  /\ returned' = NoReturn

ExportSession(k) ==
  /\ Commit(sessionsGet(Store, k), req, sessionsGet(Store, k).sessions[k])
  /\ UNCHANGED <<client, maxMessagesPerSession, now, called, failed>>
  /\ returned' = [NoReturn EXCEPT !.op = "exportSession",
                                  !.record = RecordOf(Store, k)]

\* importSession(context) with the object exportSession returned
ImportSession ==
  /\ exported # None
  /\ Commit([Store EXCEPT !.sessions[ctx[exported].sessionId] = exported],
            req, exported)
  /\ UNCHANGED <<client, maxMessagesPerSession, now, called, failed>>
  /\ returned' = NoReturn

\* the ChatContext values a caller loads from storage
StoredHistories ==
  {<<>>, [i \in 1 .. MaxCap + 1 |-> [role |-> "user", content |-> <<"hi">>]]}

\* a stored ChatContext without a projectSession
NoProject == [projectName |-> "", currentPhase |-> "", requirements |-> None]

StoredProjects ==
  {NoProject} \cup [projectName : {"New Project"}, currentPhase : Phases,
                    requirements : {None, 1}]

\* importSession(context) with an object built from stored data
ImportStored(k, h, p) ==
  /\ FreeCtx(Store) # {}
  /\ p # NoProject => FreePs(Store) # {}
  /\ LET id == Least(FreeCtx(Store))
         j == IF p = NoProject THEN None ELSE Least(FreePs(Store))
         c == [alloc |-> TRUE, sessionId |-> k, conversationHistory |-> h,
               projectSession |-> j, updatedAt |-> now, messageCount |-> Len(h)]
         st1 == [Store EXCEPT !.ctx[id] = c, !.sessions[k] = id]
         st2 == IF p = NoProject THEN st1
                ELSE [st1 EXCEPT !.pss[j] =
                        [alloc |-> TRUE, projectName |-> p.projectName,
                         currentPhase |-> p.currentPhase,
                         requirements |-> p.requirements, design |-> None,
                         tasks |-> None, conversationHistory |-> <<>>,
                         updatedAt |-> now]]
     IN  Commit(st2, req, exported)
  /\ UNCHANGED <<client, maxMessagesPerSession, now, called, failed>>
  /\ returned' = NoReturn

PruneOldSessions(hoursOld) ==
  /\ Commit(pruneOldSessions(Store, hoursOld), req, exported)
  /\ UNCHANGED <<client, maxMessagesPerSession, now, called, failed>>
  /\ returned' = [NoReturn EXCEPT !.op = "pruneOldSessions",
                                  !.count = pruneOldSessionsResult(Store, hoursOld)]

\* the clock advances
Tick ==
  /\ now < MaxTime
  /\ now' = now + 1
  /\ UNCHANGED <<sessions, ctx, pss, maxMessagesPerSession, req, exported, called, failed,
               returned, client>>

(***************************************************************************)
(* Direct calls of the manager's query operations.  returned.record is     *)
(* what the store held for the key the query looked up, returned.count the *)
(* number in its result.                                                   *)
(***************************************************************************)
Query(op, k, result) ==
  /\ Commit(sessionsGet(Store, k), req, exported)
  /\ UNCHANGED <<client, maxMessagesPerSession, now, called, failed>>
  /\ returned' = [op |-> op, count |-> result, record |-> RecordOf(Store, k)]

\* the result true is 1, false 0
IsPhaseComplete(k, phase) ==
  Query("isPhaseComplete", k, IF isPhaseComplete(Store, k, phase) THEN 1 ELSE 0)

GetProjectSession(k) == Query("getProjectSession", k, 0)

\* the length of the log it returns
GetConversationHistory(k) ==
  Query("getConversationHistory", k, Len(getConversationHistory(Store, k)))

\* the Messages line of the summary
GetContextSummary(k) ==
  Query("getContextSummary", k, getContextSummary(Store, k).messages)

\* Array.from(this.sessions.keys()): no lookup of a key
GetActiveSessions ==
  /\ Commit(Store, req, exported)
  /\ UNCHANGED <<client, maxMessagesPerSession, now, called, failed>>
  /\ returned' = [NoReturn EXCEPT !.op = "getActiveSessions",
                                  !.count = Cardinality(getActiveSessions(Store))]

(***************************************************************************)
(* POST, app/api/chat/route.ts.  The handler runs from its start to its    *)
(* first await (the reply call), from there to its second await (the       *)
(* document generation, when it is invoked) and from there to the response.*)
(***************************************************************************)
\* the transition table with tasks skipped
NextPhaseSkipsTasks(p) ==
  CASE p = "requirements" -> "design"
    [] p = "design" -> "complete"
    [] p = "tasks" -> "complete"

\* the transition table with every generation ending the workflow
NextPhaseToComplete(p) ==
  CASE p = "requirements" -> "complete"
    [] p = "design" -> "complete"
    [] p = "tasks" -> "complete"

NextPhase(p) ==
  CASE p = "requirements" -> "design"
    [] p = "design" -> "tasks"
    [] p = "tasks" -> "complete"

\* the text the handler appends to the reply after a generation
Note(p) ==
  CASE p = "requirements" -> <<"Requirements.md generated">>
    [] p = "design" -> <<"Design.md generated">>
    [] p = "tasks" -> <<"Tasks.md generated">>

\* projectSession.requirements / .design / .tasks read through a reference
PayloadOf(st, j, p) ==
  CASE p = "requirements" -> st.pss[j].requirements
    [] p = "design" -> st.pss[j].design
    [] p = "tasks" -> st.pss[j].tasks

\* memoryManager.setRequirements / setDesign / setTasks, by phase
setPayload(st, sessionId, p, v) ==
  CASE p = "requirements" -> setRequirements(st, sessionId, v)
    [] p = "design" -> setDesign(st, sessionId, v)
    [] p = "tasks" -> setTasks(st, sessionId, v)

\* invocations of POST on key k that have not yet stored their reply
InFlight(k) == Cardinality({r \in ReqIds : req[r].pc \in {"chat", "gen"}
                                             /\ req[r].sessionId = k})

\* a rejection that always answers with status 500
RejectAsServerError(r, q, status) ==
  /\ req' = [req EXCEPT ![r] = [q EXCEPT !.pc = "done", !.status = 500]]
  /\ UNCHANGED <<sessions, ctx, pss, maxMessagesPerSession, now, exported, called, failed,
               returned>>

\* a rejection after the session key has been resolved
RejectAfterGetSession(r, q, status) ==
  /\ CanGetSession(Store, IF q.supplied # "" THEN q.supplied ELSE MintKey(now))
  /\ Commit(getSession(Store, IF q.supplied # "" THEN q.supplied ELSE MintKey(now)),
            [req EXCEPT ![r] = [q EXCEPT !.pc = "done", !.status = status]],
            exported)
  /\ UNCHANGED <<maxMessagesPerSession, now, called, failed, returned>>

\* a response without touching the store (statuses 400 and 500)
Reject(r, q, status) ==
  /\ req' = [req EXCEPT ![r] = [q EXCEPT !.pc = "done", !.status = status]]
  /\ UNCHANGED <<sessions, ctx, pss, maxMessagesPerSession, now, exported, called, failed,
               returned>>

\* the handler initializing a Project Session on every first message,
\* without looking for an existing one
PostStartReinitializes(r, hasApiKey, n, text, sid, limit) ==
  /\ req[r].pc = "idle"
  /\ \A r2 \in ReqIds : r2 < r => req[r2].pc # "idle"
  /\ LET q0 == [IdleReq EXCEPT !.apiKey = hasApiKey, !.messages = n,
                                !.supplied = sid, !.userMessage = text]
     IN
     IF ~hasApiKey THEN Reject(r, q0, 500)
     ELSE IF n = 0 THEN Reject(r, q0, 400)
     ELSE
       LET effectiveSessionId == IF sid # "" THEN sid ELSE MintKey(now)
           st1 == getSession(Store, effectiveSessionId)
           st2 == addMessage(st1, effectiveSessionId, "user", text)
           init == n = 1
           st3 == IF init
                  THEN initializeProjectSession(st2, effectiveSessionId, "New Project")
                  ELSE st2
       IN  /\ CanGetSession(Store, effectiveSessionId)
           /\ init => FreePs(st2) # {}
           /\ Count(Store, effectiveSessionId)
                + 2 * InFlight(effectiveSessionId) + 2 <= limit
           /\ Commit(st3,
                     [req EXCEPT ![r] =
                        [q0 EXCEPT !.pc = "chat",
                                   !.sessionId = effectiveSessionId,
                                   !.stored = RecordOf(Store, effectiveSessionId),
                                   !.projectSession =
                                      getProjectSession(st3, effectiveSessionId)]],
                     exported)
           /\ UNCHANGED <<maxMessagesPerSession, now, called, failed, returned>>

\* lines 31-86: up to the call of agent.chat; limit bounds the messages
\* recorded for the key
PostStart(r, hasApiKey, n, text, sid, limit) ==
  /\ req[r].pc = "idle"
  /\ \A r2 \in ReqIds : r2 < r => req[r2].pc # "idle"
  /\ LET q0 == [IdleReq EXCEPT !.apiKey = hasApiKey, !.messages = n,
                                !.supplied = sid, !.userMessage = text]
     IN
     IF ~hasApiKey THEN Reject(r, q0, 500)
     ELSE IF n = 0 THEN Reject(r, q0, 400)
     ELSE
       LET effectiveSessionId == IF sid # "" THEN sid ELSE MintKey(now)
           st1 == getSession(Store, effectiveSessionId)
           st2 == addMessage(st1, effectiveSessionId, "user", text)
           init == getProjectSession(st2, effectiveSessionId) = None /\ n = 1
           st3 == IF init
                  THEN initializeProjectSession(st2, effectiveSessionId, "New Project")
                  ELSE st2
       IN  /\ CanGetSession(Store, effectiveSessionId)
           /\ init => FreePs(st2) # {}
           /\ Count(Store, effectiveSessionId)
                + 2 * InFlight(effectiveSessionId) + 2 <= limit
           /\ Commit(st3,
                     [req EXCEPT ![r] =
                        [q0 EXCEPT !.pc = "chat",
                                   !.sessionId = effectiveSessionId,
                                   !.stored = RecordOf(Store, effectiveSessionId),
                                   !.projectSession =
                                      getProjectSession(st3, effectiveSessionId)]],
                     exported)
           /\ UNCHANGED <<maxMessagesPerSession, now, called, failed, returned>>

\* a request from a caller other than the page
ReqStart(r, hasApiKey, n, text, sid, limit) ==
  /\ PostStart(r, hasApiKey, n, text, sid, limit)
  /\ UNCHANGED client

\* lines 158-187: store the reply and build the response
Finish(st, r, q) ==
  LET st1 == addMessage(st, q.sessionId, "assistant", q.response)
      responseData ==
        [content |-> q.response,
         document |-> q.generatedDocument,
         projectSession |-> IF q.generatedDocument # NoDocument
                            THEN Snapshot(st1, q.projectSession)
                            ELSE NoSnapshot]
  IN  /\ CanGetSession(st, q.sessionId)
      /\ Commit(st1,
                [req EXCEPT ![r] = [q EXCEPT !.pc = "done", !.status = 200,
                                             !.projectSession = None,
                                             !.responseData = responseData]],
                exported)

\* a catch block that still advances the phase
catchGenerationAdvances(st, sessionId, p) ==
  updateProjectPhase(st, sessionId,
                     CASE p = "requirements" -> "design"
                       [] p = "design" -> "tasks"
                       [] p = "tasks" -> "complete")

\* catch (error) { console.error(...) }: the store after a generation threw
catchGeneration(st, sessionId, p) == st

\* lines 86-99, 115, 139: agent.chat returns or throws; the phase check.
\* agents.documentGenerator is set: with a credential configured,
\* initializeAgents constructs both agents.  before and retryOf record what
\* the store held at the phase check.
ChatReturn(r, ok, reply) ==
  /\ req[r].pc = "chat"
  /\ IF ~ok THEN
       /\ Commit(Store,
                 [req EXCEPT ![r] = [req[r] EXCEPT !.pc = "done", !.status = 500,
                                                   !.projectSession = None]],
                 exported)
       /\ UNCHANGED <<returned, client, maxMessagesPerSession, now, called, failed>>
     ELSE
       LET j == req[r].projectSession
           currentPhase == IF j # None THEN pss[j].currentPhase ELSE ""
           q == [req[r] EXCEPT !.reply = reply, !.response = reply,
                               !.currentPhase = currentPhase,
                               !.before = SnapshotOf(Store, req[r].sessionId),
                               !.retryOf = failed[req[r].sessionId]]
       IN  IF /\ j # None
              /\ currentPhase \in DocPhases
              /\ isPhaseComplete(Store, req[r].sessionId, currentPhase)
           THEN /\ Commit(Store,
                          [req EXCEPT ![r] = [q EXCEPT !.pc = "gen",
                                                       !.generation = "pending"]],
                          exported)
                /\ UNCHANGED <<returned, client, maxMessagesPerSession, now, called, failed>>
           ELSE /\ Finish(Store, r, q)
                /\ failed' = [failed EXCEPT ![req[r].sessionId] = ""]
                /\ UNCHANGED <<returned, client, maxMessagesPerSession, now, called>>

\* lines 101-111, 117-135, 141-154: the generation returns or throws
GenReturn(r, ok, doc) ==
  /\ req[r].pc = "gen"
  /\ CanGetSession(Store, req[r].sessionId)
  /\ LET p == req[r].currentPhase
         j == req[r].projectSession
         sid == req[r].sessionId
     IN  IF ok THEN
           LET st1 == setPayload(Store, sid, p, PayloadOf(Store, j, p))
               st2 == updateProjectPhase(st1, sid, NextPhase(p))
               q == [req[r] EXCEPT !.generation = "ok",
                                   !.generatedDocument = [type |-> p, content |-> doc],
                                   !.response = @ \o Note(p)]
           IN  /\ Finish(st2, r, q)
               /\ called' = [called EXCEPT ![sid] = @ \cup {p}]
               /\ failed' = [failed EXCEPT ![sid] = ""]
               /\ UNCHANGED <<returned, client, maxMessagesPerSession, now>>
         ELSE
           /\ Finish(catchGeneration(Store, sid, p), r,
                     [req[r] EXCEPT !.generation = "threw"])
           /\ failed' = [failed EXCEPT ![sid] = p]
           /\ UNCHANGED <<returned, client, maxMessagesPerSession, now, called>>

\* the response has been sent
Respond(r) ==
  /\ req[r].pc = "done"
  /\ Commit(Store, [req EXCEPT ![r] = IdleReq], exported)
  /\ UNCHANGED <<maxMessagesPerSession, now, called, failed, returned>>

\* the response reaches a caller other than the page
ReqClose(r) ==
  /\ client.fetch.r # r
  /\ Respond(r)
  /\ UNCHANGED client

(***************************************************************************)
(* Home, app/page.tsx.  A handler's state updates are committed together   *)
(* and the two effects run after the render that follows.                  *)
(***************************************************************************)
\* setChats in the save effect: the chat with the id gets the messages
SaveChat(chats, id, messages) ==
  IF id # "" /\ chats[id].exists
  THEN [chats EXCEPT ![id].messages = messages]
  ELSE chats

\* lines 236-268: the load effect (dependency currentChatId) and the save
\* effect (dependencies messages and currentChatId) after a handler took the
\* page from prev to cur; the save effect runs again when the load effect
\* changed the messages
useEffect(prev, cur) ==
  LET id == cur.currentChatId
      chatChanged == id # prev.currentChatId
      loaded == IF chatChanged /\ id # "" /\ cur.chats[id].exists
                THEN cur.chats[id].messages
                ELSE cur.messages
      saved == IF /\ chatChanged \/ cur.messages # prev.messages
                  /\ id # "" /\ Len(cur.messages) > 0
               THEN SaveChat(cur.chats, id, cur.messages)
               ELSE cur.chats
      savedAgain == IF loaded # cur.messages /\ Len(loaded) > 0
                    THEN SaveChat(saved, id, loaded)
                    ELSE saved
  IN  [cur EXCEPT !.messages = loaded, !.chats = savedAgain]

\* lines 270-283; the id of a new chat is the time of its creation
handleNewChat ==
  /\ ~client.chats[ToString(now)].exists
  /\ client' = useEffect(client,
                 [client EXCEPT !.chats[ToString(now)] =
                                   [exists |-> TRUE, messages |-> <<>>],
                                !.currentChatId = ToString(now),
                                !.messages = <<>>])
  /\ UNCHANGED <<sessions, ctx, pss, maxMessagesPerSession, now, req, exported,
                 called, failed, returned>>

\* lines 285-287
handleSelectChat(chatId) ==
  /\ client.chats[chatId].exists
  /\ client' = useEffect(client, [client EXCEPT !.currentChatId = chatId])
  /\ UNCHANGED <<sessions, ctx, pss, maxMessagesPerSession, now, req, exported,
                 called, failed, returned>>

\* lines 289-324: up to the await of fetch.  The body is built from the
\* messages of the render the handler belongs to; it carries no sessionId.
handleSubmit(input) ==
  /\ input # <<>>
  /\ ~client.isLoading
  /\ Len(client.messages) + 2 <= MaxCount
  /\ client.currentChatId = "" => ~client.chats[ToString(now)].exists
  /\ LET id == IF client.currentChatId = "" THEN ToString(now)
               ELSE client.currentChatId
         userMsg == [role |-> "user", content |-> input]
         created == IF client.currentChatId = ""
                    THEN [client EXCEPT !.chats[id] =
                                           [exists |-> TRUE, messages |-> <<>>],
                                        !.currentChatId = id]
                    ELSE client
     IN  client' = useEffect(client,
                     [created EXCEPT
                        !.messages = Append(client.messages, userMsg),
                        !.isLoading = TRUE,
                        !.fetch = [state |-> "sent", r |-> None,
                                   messages |-> Len(client.messages) + 1,
                                   userMessage |-> input,
                                   chat |-> id]])
  /\ UNCHANGED <<sessions, ctx, pss, maxMessagesPerSession, now, req, exported,
                 called, failed, returned>>

\* the request of the page reaches POST
PagePost(r, hasApiKey) ==
  /\ client.fetch.state = "sent"
  /\ PostStart(r, hasApiKey, client.fetch.messages, client.fetch.userMessage,
               "", MaxCount)
  /\ client' = [client EXCEPT
                  !.fetch.state = "served",
                  !.fetch.r = r,
                  !.servedBy[client.fetch.chat] =
                     IF hasApiKey THEN MintKey(now) ELSE @]

\* lines 326-344: the response reaches the page
handleResponse(r) ==
  /\ client.fetch.state = "served"
  /\ client.fetch.r = r
  /\ Respond(r)
  /\ LET aiMsg == [role |-> "assistant",
                   content |-> req[r].responseData.content]
     IN  client' = useEffect(client,
                     [client EXCEPT
                        !.messages = IF req[r].status = 200
                                     THEN Append(client.messages, aiMsg)
                                     ELSE client.messages,
                        !.isLoading = FALSE,
                        !.fetch = NoFetch])

(***************************************************************************)
(* Specifications.                                                         *)
(***************************************************************************)
\* a request arrives at the chat entry point: keys in K, texts in T
Request(K, T) ==
  \E r \in ReqIds, hasApiKey \in BOOLEAN, n \in 0 .. MaxBody,
     text \in T, sid \in K :
       ReqStart(r, hasApiKey, n, text, sid, MaxCount)

\* a request in flight takes its next step
Progress ==
  \/ \E r \in ReqIds, ok \in BOOLEAN, reply \in Replies : ChatReturn(r, ok, reply)
  \/ \E r \in ReqIds, ok \in BOOLEAN, doc \in Payloads : GenReturn(r, ok, doc)
  \/ \E r \in ReqIds : ReqClose(r)

\* calls of the operations on the Project Session: keys in K, payloads in V,
\* project names in N
ProjectOp(K, V, N) ==
  \/ \E k \in K, name \in N : InitializeProjectSession(k, name)
  \/ \E k \in K, p \in Phases : UpdateProjectPhase(k, p)
  \/ \E k \in K, v \in V : SetRequirements(k, v)
  \/ \E k \in K, v \in V : SetDesign(k, v)
  \/ \E k \in K, v \in V : SetTasks(k, v)

\* calls of the operations on the Map
MapOp(K) ==
  \/ \E k \in K : CreateSession(k)
  \/ \E k \in K : GetSession(k)
  \/ \E k \in K : ClearSession(k)
  \/ ClearAllSessions

\* calls of the operations on the conversation log
LogOp(K, T) ==
  \E k \in K, role \in Roles, content \in T : AddMessage(k, role, content)

\* calls of exportSession and importSession
TransferOp(K) ==
  \/ \E k \in K : ExportSession(k)
  \/ ImportSession
  \/ \E k \in K, h \in StoredHistories, p \in StoredProjects : ImportStored(k, h, p)

\* calls of the query operations: keys in K
QueryOp(K) ==
  \/ \E k \in K, p \in Phases : IsPhaseComplete(k, p)
  \/ \E k \in K : GetProjectSession(k)
  \/ \E k \in K : GetConversationHistory(k)
  \/ \E k \in K : GetContextSummary(k)
  \/ \E k \in K : ExportSession(k)
  \/ GetActiveSessions

\* everything, in any interleaving
Next ==
  \/ MapOp(OpKeys)
  \/ LogOp(OpKeys, UserTexts)
  \/ ProjectOp(OpKeys, Payloads, ProjectNames)
  \/ TransferOp(OpKeys)
  \/ QueryOp(OpKeys)
  \/ \E h \in 0 .. MaxTime : PruneOldSessions(h)
  \/ Request(OpKeys \cup {""}, UserTexts)
  \/ Progress
  \/ Tick

Spec == Init /\ [][Next]_vars

\* the manager's Project Session operations on one key
StoreNext ==
  \/ MapOp({"k1"})
  \/ ProjectOp({"k1"}, Payloads, {"New Project"})

SpecStore == Init /\ [][StoreNext]_vars

\* the manager's conversation log on one key
LogNext ==
  \/ MapOp({"k1"})
  \/ LogOp({"k1"}, UserTexts)

SpecLog == Init /\ [][LogNext]_vars

\* the Map under every operation that adds, replaces or removes a record,
\* on two keys and with the clock advancing
StoreMapNext ==
  \/ MapOp(SuppliedKeys)
  \/ \E k \in SuppliedKeys : AddMessage(k, "user", <<"hi">>)
  \/ \E hoursOld \in 0 .. MaxTime : PruneOldSessions(hoursOld)
  \/ \E k \in SuppliedKeys : ExportSession(k)
  \/ ImportSession
  \/ \E k \in SuppliedKeys : ImportStored(k, <<>>, NoProject)
  \/ Tick

SpecMap == Init /\ [][StoreMapNext]_vars

\* the application: requests on one key served one at a time, and calls of
\* the manager between them
SeqNext ==
  \/ Idle /\ Request({"k1"}, {<<"hi">>})
  \/ Idle /\ ProjectOp({"k1"}, {1}, {"New Project"})
  \/ Idle /\ ClearSession("k1")
  \/ Progress

SpecSeq == InitApp /\ [][SeqNext]_vars

\* the application: requests served one at a time, with and without a
\* session key, and a caller that stores a Requirements payload
PostNext ==
  \/ Idle /\ Request({"k1", ""}, {<<"hi">>})
  \/ Idle /\ SetRequirements("k1", 1)
  \/ Progress

SpecPost == InitApp /\ [][PostNext]_vars

\* the page and the server: the user starts, selects and writes in chats
\* and the server serves the page's requests.  No other caller stores a
\* payload, so no request reaches the document generation.
PageNext ==
  \/ handleNewChat
  \/ \E chatId \in ChatIds : handleSelectChat(chatId)
  \/ handleSubmit(<<"hi">>)
  \/ \E r \in ReqIds, hasApiKey \in BOOLEAN : PagePost(r, hasApiKey)
  \/ \E r \in ReqIds, ok \in BOOLEAN, reply \in Replies : ChatReturn(r, ok, reply)
  \/ \E r \in ReqIds : handleResponse(r)
  \/ Tick

SpecPage == InitApp /\ [][PageNext]_vars

\* requests on one key served concurrently: a request starts while others
\* are suspended at the reply call or at the document generation, every
\* external call succeeds, and a caller stores the payloads
ConcNext ==
  \/ \E r \in ReqIds : ReqStart(r, TRUE, 1, <<"hi">>, "k1", MaxChat)
  \/ \E r \in ReqIds, reply \in Replies : ChatReturn(r, TRUE, reply)
  \/ \E r \in ReqIds : GenReturn(r, TRUE, 1)
  \/ \E r \in ReqIds : ReqClose(r)
  \/ SetRequirements("k1", 1)
  \/ SetDesign("k1", 1)
  \/ SetTasks("k1", 1)

SpecConc == InitApp /\ [][ConcNext]_vars

\* the manager's Project Session operations on one key whose conversation
\* log also grows, with the clock advancing
SetNext ==
  \/ ProjectOp({"k1"}, Payloads, {"New Project"})
  \/ AddMessage("k1", "user", <<"hi">>)
  \/ ClearSession("k1")
  \/ Tick

SpecSet == InitApp /\ [][SetNext]_vars

\* the manager's Project Session operations on one key, called with either
\* project name
NameNext ==
  \/ ProjectOp({"k1"}, {1}, ProjectNames)
  \/ ClearSession("k1")

SpecName == InitApp /\ [][NameNext]_vars

\* the manager's Project Session operations on the key "k1", whose record
\* only these operations create, next to a second key with a record of its
\* own
FrameNext ==
  \/ ProjectOp({"k1"}, {1}, {"New Project"})
  \/ ClearSession("k1")
  \/ GetSession("k2")
  \/ AddMessage("k2", "user", <<"hi">>)
  \/ ClearAllSessions

SpecFrame == InitApp /\ [][FrameNext]_vars

\* the manager's Project Session operations on one key, pruning, and the
\* clock advancing
PruneNext ==
  \/ ProjectOp({"k1"}, {1}, {"New Project"})
  \/ \E hoursOld \in 0 .. MaxTime : PruneOldSessions(hoursOld)
  \/ Tick

SpecPrune == InitApp /\ [][PruneNext]_vars

\* requests without a session key served concurrently while the clock
\* advances
MintNext ==
  \/ \E r \in ReqIds : ReqStart(r, TRUE, 1, <<"hi">>, "", MaxChat)
  \/ \E r \in ReqIds, reply \in Replies : ChatReturn(r, TRUE, reply)
  \/ \E r \in ReqIds : ReqClose(r)
  \/ Tick

SpecMint == InitApp /\ [][MintNext]_vars

\* a caller exports and imports the session of a key while requests on the
\* key are served one at a time
ExportNext ==
  \/ ExportSession("k1")
  \/ ImportSession
  \/ Idle /\ Request({"k1"}, {<<"hi">>})
  \/ \E r \in ReqIds, ok \in BOOLEAN, reply \in Replies : ChatReturn(r, ok, reply)
  \/ \E r \in ReqIds : ReqClose(r)

SpecExport == InitApp /\ [][ExportNext]_vars

\* the queries on two keys, one of which other calls fill and clear
QueryNext ==
  \/ QueryOp(SuppliedKeys)
  \/ AddMessage("k1", "user", <<"hi">>)
  \/ InitializeProjectSession("k1", "New Project")
  \/ SetRequirements("k1", 1)
  \/ ClearSession("k1")

SpecQuery == InitApp /\ [][QueryNext]_vars

\* well-formed requests on a key, every external call succeeding
ChatOnly(k, limit) ==
  \/ /\ Idle
     /\ \E r \in ReqIds, n \in 1 .. MaxBody :
          ReqStart(r, TRUE, n, <<"hi">>, k, limit)
  \/ \E r \in ReqIds, reply \in Replies :
       req[r].sessionId = k /\ ChatReturn(r, TRUE, reply)
  \/ \E r \in ReqIds, doc \in Payloads :
       req[r].sessionId = k /\ GenReturn(r, TRUE, doc)
  \/ \E r \in ReqIds : req[r].sessionId = k /\ ReqClose(r)

\* the application with key "k2" driven through the chat entry point only;
\* on key "k1" another caller also stores a Requirements payload
ChatNext ==
  \/ ChatOnly("k2", MaxChat)
  \/ ChatOnly("k1", MaxCount)
  \/ Idle /\ SetRequirements("k1", 1)

SpecChat == InitApp /\ [][ChatNext]_vars /\ WF_vars(ChatNext)

(***************************************************************************)
(* Properties.                                                             *)
(***************************************************************************)
HasPs(k) == getProjectSession(Store, k) # None

Ps(k) == pss[getProjectSession(Store, k)]

\* position in the order requirements -> design -> tasks -> complete
PhaseRank(p) ==
  CASE p = "requirements" -> 0
    [] p = "design" -> 1
    [] p = "tasks" -> 2
    [] p = "complete" -> 3
    [] OTHER -> 0 - 1

\* the payload a Project Session snapshot holds for phase p
PayloadIn(snapshot, p) ==
  CASE p = "requirements" -> snapshot.requirements
    [] p = "design" -> snapshot.design
    [] p = "tasks" -> snapshot.tasks
    [] OTHER -> None

History(k) == getConversationHistory(Store, k)

Done(r) == req[r].pc = "done"

\* C1: in every session the current phase is one of the four phases and no
\* step moves it to an earlier phase while the session lives.
C1_PhaseNeverRegresses ==
  [][\A k \in Keys :
       (HasPs(k) /\ HasPs(k)') =>
          /\ Ps(k)'.currentPhase \in Phases
          /\ PhaseRank(Ps(k)'.currentPhase) >= PhaseRank(Ps(k).currentPhase)]_vars

\* C2: a fresh session driven only by well-formed chat requests, every
\* external call succeeding, reaches the phase complete.
C2_ChatReachesComplete ==
  <>(HasPs("k2") /\ Ps("k2").currentPhase = "complete")

\* In every state of SpecChat the chat-only session has no payload stored
\* and is in phase requirements: serving more requests than the model's
\* budget cannot make C2 true.
ChatOnlyStaysInRequirements ==
  HasPs("k2") =>
    /\ Ps("k2").currentPhase = "requirements"
    /\ \A p \in DocPhases : ~isPhaseComplete(Store, "k2", p)

\* C3: a request that finds the Project Session in phase p with the payload
\* of p stored, and whose reply and generation calls succeed, returns a
\* document of type p, leaves the phase at the successor of p and logs the
\* reply extended with the transition note as the assistant entry.
C3_GenerationAdvances ==
  \A r \in ReqIds :
    LET p == req[r].before.currentPhase
        k == req[r].sessionId
    IN  (/\ Done(r) /\ req[r].status = 200
         /\ p \in DocPhases
         /\ PayloadIn(req[r].before, p) # None
         /\ req[r].generation # "threw")
        => /\ req[r].responseData.document.type = p
           /\ HasPs(k)
           /\ PhaseRank(Ps(k).currentPhase) = PhaseRank(p) + 1
           /\ Len(History(k)) > 0
           /\ History(k)[Len(History(k))].role = "assistant"
           /\ \E note \in {<<"Requirements.md generated">>,
                           <<"Design.md generated">>,
                           <<"Tasks.md generated">>} :
                History(k)[Len(History(k))].content = req[r].reply \o note
           /\ req[r].responseData.content = History(k)[Len(History(k))].content

C3_Witness ==
  \E r \in ReqIds :
    /\ Done(r) /\ req[r].generation = "ok"
    /\ req[r].before.currentPhase = "design"
    /\ Ps(req[r].sessionId).currentPhase = "tasks"

\* C4: after a successful generation for phase p the payload stored for p
\* is the document the generation returned.
C4_StoresGenerated ==
  \A r \in ReqIds :
    (Done(r) /\ req[r].generation = "ok") =>
       PayloadIn(SnapshotOf(Store, req[r].sessionId), req[r].currentPhase)
         = req[r].generatedDocument.content

\* C5: when the generation throws, the request still answers 200 with the
\* plain reply and no document, and phase and payloads are as they were
\* before the attempt.
C5_FailureKeepsState ==
  \A r \in ReqIds :
    (Done(r) /\ req[r].generation = "threw") =>
       /\ req[r].status = 200
       /\ req[r].responseData.content = req[r].reply
       /\ req[r].responseData.document = NoDocument
       /\ req[r].responseData.projectSession = NoSnapshot
       /\ SnapshotOf(Store, req[r].sessionId) = req[r].before

C5_Witness ==
  \E r \in ReqIds :
    /\ Done(r) /\ req[r].generation = "threw"
    /\ req[r].before.currentPhase = "design"

\* C6: after a generation failure in phase p the phase is still p, the next
\* request on that session that gets its reply and finds phase p with its
\* payload stored invokes the generation for p again, and a request never
\* invokes the generation a second time.
C6_RetriedOnNextRequest ==
  /\ [](\A r \in ReqIds :
          /\ (Done(r) /\ req[r].generation = "threw") =>
                /\ HasPs(req[r].sessionId)
                /\ Ps(req[r].sessionId).currentPhase = req[r].before.currentPhase
                /\ failed[req[r].sessionId] = req[r].before.currentPhase
          /\ (/\ Done(r) /\ req[r].status = 200
              /\ req[r].retryOf # ""
              /\ req[r].before.currentPhase = req[r].retryOf
              /\ PayloadIn(req[r].before, req[r].retryOf) # None)
             => req[r].generation \in {"ok", "threw"})
  /\ [][\A r \in ReqIds :
          req[r].pc = "gen" => req'[r].pc \in {"gen", "done"}]_vars

C6_Witness ==
  \E r \in ReqIds :
    /\ Done(r) /\ req[r].retryOf = "design"
    /\ req[r].before.currentPhase = "design"
    /\ req[r].generation = "ok"

\* C7: initializeProjectSession on a key that already has a Project Session
\* leaves the phase and the stored payloads as they were.
C7_InitializeIsNoOp ==
  [][\A k \in Keys, name \in ProjectNames :
       (HasPs(k) /\ InitializeProjectSession(k, name))
          => SnapshotOf(Store, k)' = SnapshotOf(Store, k)]_vars

\* C8: isPhaseComplete is true for requirements, design and tasks exactly
\* when that payload is stored, for complete exactly when all three are, and
\* false without a Project Session, whatever the current phase.
C8_CompleteIffStored ==
  \A k \in Keys :
    LET stored(p) == HasPs(k) /\ PayloadIn(SnapshotOf(Store, k), p) # None
    IN  /\ \A p \in DocPhases : isPhaseComplete(Store, k, p) <=> stored(p)
        /\ isPhaseComplete(Store, k, "complete")
             <=> (stored("requirements") /\ stored("design") /\ stored("tasks"))
        /\ ~HasPs(k) => \A p \in Phases : ~isPhaseComplete(Store, k, p)

C8_Witness ==
  /\ HasPs("k1")
  /\ Ps("k1").currentPhase = "requirements"
  /\ isPhaseComplete(Store, "k1", "complete")

C10_LogWithinCap ==
  \A k \in Keys : Len(History(k)) <= maxMessagesPerSession

\* the last n entries of a log, in their order
LastEntries(log, n) == SubSeq(log, Len(log) - n + 1, Len(log))

\* C11: after n addMessage calls on a session the log holds min(n, cap)
\* entries, and every call leaves the last min(n, cap) entries of the old log
\* followed by the new entry, in their order: the oldest entries are the ones
\* dropped.
C11_LogIsLastEntries ==
  /\ [](\A k \in Keys :
          Has(Store, k) =>
             Len(History(k)) = Min(Count(Store, k), maxMessagesPerSession))
  /\ [][\A k \in Keys, role \in Roles, content \in UserTexts :
          AddMessage(k, role, content) =>
             History(k)' =
                LastEntries(Append(History(k), [role |-> role, content |-> content]),
                            Min(Count(Store, k) + 1, maxMessagesPerSession))]_vars

\* a request is in state pc with the credential configured and a message list
Served(r) == req[r].pc # "idle" /\ req[r].apiKey /\ req[r].messages > 0

\* C12: a request with exactly one message on a session key not yet in the
\* store, whose reply call succeeds, leaves a Project Session in phase
\* requirements, a log of exactly the user entry followed by the assistant
\* reply, and answers without a document.
C12_FirstMessageOfFreshSession ==
  \A r \in ReqIds :
    LET k == req[r].sessionId
    IN  (/\ Done(r) /\ req[r].status = 200
         /\ req[r].messages = 1
         /\ ~req[r].stored.present)
        => /\ HasPs(k)
           /\ Ps(k).currentPhase = "requirements"
           /\ History(k) = <<[role |-> "user", content |-> req[r].userMessage],
                             [role |-> "assistant", content |-> req[r].reply]>>
           /\ req[r].responseData.document = NoDocument
           /\ req[r].responseData.content = req[r].reply

C12_Witness ==
  \E r \in ReqIds :
    /\ Done(r) /\ req[r].status = 200
    /\ req[r].messages = 1
    /\ ~req[r].stored.present
    /\ Len(History(req[r].sessionId)) = 2

\* C13: the step in which a request resolves its session initializes a
\* Project Session exactly when the session had none and its log was empty,
\* however many messages the body carries.
C13_InitializesOnFirstMessage ==
  [][\A r \in ReqIds, k \in Keys :
       (req[r].pc = "idle" /\ req'[r].pc = "chat" /\ req'[r].sessionId = k) =>
          ((~HasPs(k) /\ HasPs(k)') <=> (~HasPs(k) /\ History(k) = <<>>))]_vars

C14_WitnessNoKey ==
  \E r \in ReqIds : Done(r) /\ req[r].status = 400 /\ req[r].supplied = ""

\* C15: when the reply call fails the request answers 500 without a
\* document, and the record of its session is the record the store held
\* before with the user message appended and nothing else changed.
C15_ReplyFailureKeepsUserMessageOnly ==
  \A r \in ReqIds :
    LET k == req[r].sessionId
    IN  (Done(r) /\ Served(r) /\ req[r].status # 200) =>
          /\ req[r].status = 500
          /\ req[r].responseData = NoResponseData
          /\ req[r].generation = "none"
          /\ RecordOf(Store, k) =
               [present |-> TRUE,
                conversationHistory |->
                   Append(req[r].stored.conversationHistory,
                          [role |-> "user", content |-> req[r].userMessage]),
                messageCount |-> req[r].stored.messageCount + 1,
                projectSession |-> req[r].stored.projectSession]

\* C15 as amended: besides the user message, the request leaves behind the
\* Project Session it initialized (phase requirements, no payload) when the
\* session had none and the body carried exactly one message.
C15_ReplyFailureKeepsUserMessageAndProject ==
  \A r \in ReqIds :
    LET k == req[r].sessionId
        initialized == req[r].stored.projectSession = NoSnapshot
                         /\ req[r].messages = 1
    IN  (Done(r) /\ Served(r) /\ req[r].status # 200) =>
          /\ req[r].status = 500
          /\ req[r].responseData = NoResponseData
          /\ req[r].generation = "none"
          /\ RecordOf(Store, k) =
               [present |-> TRUE,
                conversationHistory |->
                   Append(req[r].stored.conversationHistory,
                          [role |-> "user", content |-> req[r].userMessage]),
                messageCount |-> req[r].stored.messageCount + 1,
                projectSession |->
                   IF initialized
                   THEN [projectName |-> "New Project",
                         currentPhase |-> "requirements",
                         requirements |-> None, design |-> None, tasks |-> None]
                   ELSE req[r].stored.projectSession]

C15_Witness ==
  \E r \in ReqIds :
    /\ Done(r) /\ Served(r) /\ req[r].status = 500
    /\ req[r].stored.projectSession = NoSnapshot
    /\ HasPs(req[r].sessionId)

C15_WitnessKept ==
  \E r \in ReqIds :
    /\ Done(r) /\ Served(r) /\ req[r].status = 500
    /\ req[r].stored.projectSession.currentPhase = "design"
    /\ Len(req[r].stored.conversationHistory) = 2

\* C16: without a credential every request is answered with status 500 and
\* no body, and the step that answers it leaves the Map and every record as
\* they were.
C16_NoCredentialRejected ==
  /\ [](\A r \in ReqIds :
          (req[r].pc # "idle" /\ ~req[r].apiKey) =>
             /\ Done(r)
             /\ req[r].status = 500
             /\ req[r].responseData = NoResponseData)
  /\ [][\A r \in ReqIds :
          (req[r].pc = "idle" /\ req'[r].pc # "idle" /\ ~req'[r].apiKey)
          => UNCHANGED <<sessions, ctx, pss>>]_vars

C16_Witness ==
  /\ \E r \in ReqIds :
       /\ Done(r) /\ ~req[r].apiKey /\ req[r].status = 500
       /\ req[r].messages = 1 /\ req[r].supplied = "k1"
  /\ Has(Store, "k1")

\* C17: a response carries a document exactly when a generation succeeded
\* in its request; the document's type is then the phase the session was in
\* before the advance, and the response carries the Project Session with the
\* phase one step later.
C17_DocumentIffGenerated ==
  \A r \in ReqIds :
    Done(r) =>
      LET d == req[r].responseData.document
          snapshot == req[r].responseData.projectSession
      IN  /\ d # NoDocument <=> req[r].generation = "ok"
          /\ d = NoDocument => snapshot = NoSnapshot
          /\ d # NoDocument =>
               /\ d.type \in DocPhases
               /\ d.type = req[r].before.currentPhase
               /\ d.content \in Payloads
               /\ snapshot # NoSnapshot
               /\ PhaseRank(snapshot.currentPhase) = PhaseRank(d.type) + 1

C17_Witness ==
  \E r \in ReqIds :
    /\ Done(r) /\ req[r].generation = "ok"
    /\ req[r].responseData.document.type = "tasks"
    /\ req[r].responseData.projectSession.currentPhase = "complete"

C17_WitnessNoDocument ==
  \E r \in ReqIds :
    /\ Done(r) /\ req[r].generation = "threw" /\ req[r].status = 200
    /\ req[r].responseData.document = NoDocument

\* the record of key k is the same object with the same contents after the step
SameRecord(k) ==
  /\ sessions'[k] = sessions[k]
  /\ Has(Store, k) => ctx'[sessions[k]] = ctx[sessions[k]]

\* C18: pruneOldSessions(h) removes exactly the sessions whose updatedAt is
\* earlier than now - h, leaves every other session's record as it was, and
\* returns the number of sessions it removed.
C18_PruneRemovesStale ==
  [][\A hoursOld \in 0 .. MaxTime :
       PruneOldSessions(hoursOld) =>
          LET old == {k \in Keys : /\ Has(Store, k)
                                   /\ Ctx(Store, k).updatedAt < now - hoursOld}
          IN  /\ \A k \in Keys : IF k \in old THEN sessions'[k] = None
                                 ELSE SameRecord(k)
              /\ returned'.op = "pruneOldSessions"
              /\ returned'.count = Cardinality(old)]_vars

C18_Witness ==
  /\ returned.op = "pruneOldSessions"
  /\ returned.count = 1
  /\ Cardinality(getActiveSessions(Store)) = 1

\* a record created by getSession: empty log, no Project Session, count 0
FreshRecord ==
  [present |-> TRUE, conversationHistory |-> <<>>, messageCount |-> 0,
   projectSession |-> NoSnapshot]

\* C19: getSession on a present key returns the record and changes nothing;
\* on an absent key it creates one fresh record and leaves every other key's
\* record alone; a key's record is its own and no other key's; and a record
\* is replaced or removed only by clearSession, clearAllSessions,
\* pruneOldSessions or importSession.
C19_GetOrCreate ==
  /\ [](\A k \in Keys :
          Has(Store, k) =>
             /\ sessions[k] \in CtxIds
             /\ Ctx(Store, k).alloc
             /\ Ctx(Store, k).sessionId = k
             /\ \A k2 \in Keys \ {k} : sessions[k2] # sessions[k])
  /\ [][\A k \in Keys :
          GetSession(k) =>
             /\ returned'.op = "getSession"
             /\ returned'.record = RecordOf(Store, k)'
             /\ \A k2 \in Keys \ {k} : SameRecord(k2)
             /\ IF Has(Store, k)
                THEN SameRecord(k) /\ pss' = pss
                ELSE /\ RecordOf(Store, k)' = FreshRecord
                     /\ Ctx(Store, k)'.updatedAt = now]_vars
  /\ [][\A k \in Keys :
          (Has(Store, k) /\ sessions'[k] # sessions[k]) =>
             \/ ClearSession(k)
             \/ ClearAllSessions
             \/ \E hoursOld \in 0 .. MaxTime : PruneOldSessions(hoursOld)
             \/ ImportSession
             \/ \E h \in StoredHistories, p \in StoredProjects :
                  ImportStored(k, h, p)]_vars

\* C19 as amended: a record is also replaced by a direct call of
\* createSession on its key.
C19_GetOrCreateOrReplace ==
  /\ [](\A k \in Keys :
          Has(Store, k) =>
             /\ sessions[k] \in CtxIds
             /\ Ctx(Store, k).alloc
             /\ Ctx(Store, k).sessionId = k
             /\ \A k2 \in Keys \ {k} : sessions[k2] # sessions[k])
  /\ [][\A k \in Keys :
          GetSession(k) =>
             /\ returned'.op = "getSession"
             /\ returned'.record = RecordOf(Store, k)'
             /\ \A k2 \in Keys \ {k} : SameRecord(k2)
             /\ IF Has(Store, k)
                THEN SameRecord(k) /\ pss' = pss
                ELSE /\ RecordOf(Store, k)' = FreshRecord
                     /\ Ctx(Store, k)'.updatedAt = now]_vars
  /\ [][\A k \in Keys :
          (Has(Store, k) /\ sessions'[k] # sessions[k]) =>
             \/ CreateSession(k)
             \/ ClearSession(k)
             \/ ClearAllSessions
             \/ \E hoursOld \in 0 .. MaxTime : PruneOldSessions(hoursOld)
             \/ ImportSession
             \/ \E h \in StoredHistories, p \in StoredProjects :
                  ImportStored(k, h, p)]_vars

C19_Witness ==
  /\ returned.op = "getSession"
  /\ returned.record = FreshRecord
  /\ Has(Store, "k1") /\ Has(Store, "k2")
  /\ Count(Store, "k1") = 0
  /\ Count(Store, "k2") = 2

C19_WitnessPresent ==
  /\ returned.op = "getSession"
  /\ returned.record.messageCount = 2

\* C20: when the server resolves the session of a request sent from a chat
\* from which an earlier request was served, it resolves the key that
\* served the earlier one, and the record of that key is in the store with
\* the earlier messages in its log.
C20_SameSessionPerChat ==
  [][\A r \in ReqIds, c \in ChatIds :
       (/\ client.fetch.state = "sent" /\ client.fetch.chat = c
        /\ client.servedBy[c] # ""
        /\ Has(Store, client.servedBy[c])
        /\ req[r].pc = "idle" /\ req'[r].pc = "chat")
       => /\ req'[r].sessionId = client.servedBy[c]
          /\ req'[r].stored.present
          /\ Len(req'[r].stored.conversationHistory) > 0]_vars

\* C21: a request that read the phase design and whose Design generation
\* returns answers with a design document and sets the phase to tasks,
\* whatever other requests on the key did while it was suspended; two
\* requests can both do so (C21_Witness).
C21_DuplicateDesignGeneration ==
  [][\A r \in ReqIds, k \in Keys :
       (/\ req[r].pc = "gen" /\ req'[r].pc = "done"
        /\ req[r].sessionId = k
        /\ req[r].currentPhase = "design")
       => /\ req'[r].generation = "ok"
          /\ req'[r].responseData.document.type = "design"
          /\ HasPs(k)'
          /\ Ps(k)'.currentPhase = "tasks"]_vars

C21_Witness ==
  /\ \E r1 \in ReqIds : \E r2 \in ReqIds \ {r1} :
       \A r \in {r1, r2} :
          /\ Done(r) /\ req[r].sessionId = "k1"
          /\ req[r].before.currentPhase = "design"
          /\ req[r].generation = "ok"
          /\ req[r].responseData.document.type = "design"
          /\ req[r].responseData.projectSession.currentPhase = "tasks"
  /\ Ps("k1").currentPhase = "tasks"

\* the Project Session of key k keeps every field but the payload of phase p
\* (and its time stamp), and the session keeps its conversation log
OnlyPayloadChanges(k, p) ==
  /\ HasPs(k)'
  /\ \A q \in DocPhases \ {p} :
       PayloadIn(SnapshotOf(Store, k)', q) = PayloadIn(SnapshotOf(Store, k), q)
  /\ Ps(k)'.currentPhase = Ps(k).currentPhase
  /\ Ps(k)'.projectName = Ps(k).projectName
  /\ Ps(k)'.conversationHistory = Ps(k).conversationHistory
  /\ History(k)' = History(k)

\* C22: on a session that has a Project Session, setRequirements, setDesign
\* and setTasks store the given payload as the payload of their own phase,
\* replacing the one stored before, leave the other two payloads, the
\* current phase and the conversation log as they were, and calling one
\* twice with the same payload leaves the record as calling it once does.
C22_SettersReplaceOwnPayload ==
  [][\A k \in Keys, v \in Payloads :
       /\ (HasPs(k) /\ SetRequirements(k, v)) =>
            /\ OnlyPayloadChanges(k, "requirements")
            /\ Ps(k)'.requirements = v
            /\ RecordOf(setRequirements(setRequirements(Store, k, v), k, v), k)
                 = RecordOf(setRequirements(Store, k, v), k)
       /\ (HasPs(k) /\ SetDesign(k, v)) =>
            /\ OnlyPayloadChanges(k, "design")
            /\ Ps(k)'.design = v
            /\ RecordOf(setDesign(setDesign(Store, k, v), k, v), k)
                 = RecordOf(setDesign(Store, k, v), k)
       /\ (HasPs(k) /\ SetTasks(k, v)) =>
            /\ OnlyPayloadChanges(k, "tasks")
            /\ Ps(k)'.tasks = v
            /\ RecordOf(setTasks(setTasks(Store, k, v), k, v), k)
                 = RecordOf(setTasks(Store, k, v), k)]_vars

\* every setter was called on a session in the phase design with a message
\* in its log, and the payloads differ
C22_Witness ==
  /\ HasPs("k1")
  /\ called["k1"] = DocPhases
  /\ Ps("k1").requirements = 2 /\ Ps("k1").design = 1 /\ Ps("k1").tasks = 2
  /\ Ps("k1").currentPhase = "design"
  /\ Len(History("k1")) = 1

\* C23: clearSession(k) removes the record of k and leaves every other
\* key's record as it was; on a key with no record it leaves the store
\* unchanged, and clearing twice leaves the store as clearing once does.
C23_ClearRemovesOnlyKey ==
  [][\A k \in Keys :
       ClearSession(k) =>
          /\ sessions'[k] = None
          /\ \A k2 \in Keys \ {k} : SameRecord(k2)
          /\ ~Has(Store, k) => UNCHANGED <<sessions, ctx, pss>>
          /\ clearSession(clearSession(Store, k), k) = clearSession(Store, k)]_vars

\* clearSession was the last call, and another key still has its record
C23_Witness ==
  /\ returned.op = "clearSession"
  /\ ~Has(Store, "k1")
  /\ Has(Store, "k2") /\ Count(Store, "k2") = 2

\* C24: while a session keeps its record and has a Project Session, no step
\* changes the project name of its Project Session.
C24_ProjectNameNeverChanges ==
  [][\A k \in Keys :
       (/\ HasPs(k) /\ HasPs(k)'
        /\ sessions'[k] = sessions[k])
       => Ps(k)'.projectName = Ps(k).projectName]_vars

C26_GenerationHasPriorPayload ==
  \A r \in ReqIds :
    req[r].pc = "gen" =>
      /\ req[r].currentPhase = "design" =>
           PayloadIn(SnapshotOf(Store, req[r].sessionId), "requirements") # None
      /\ req[r].currentPhase = "tasks" =>
           PayloadIn(SnapshotOf(Store, req[r].sessionId), "design") # None

\* C27: a step that records a message for a session with a Project Session
\* also appends the message, tagged with the current phase, to the Project
\* Session's own conversation log.
C27_ProjectLogMirrorsMessages ==
  [][\A k \in Keys :
       (/\ HasPs(k) /\ HasPs(k)'
        /\ sessions'[k] = sessions[k]
        /\ Count(Store, k)' = Count(Store, k) + 1)
       => LET m == History(k)'[Len(History(k)')]
          IN  Ps(k)'.conversationHistory =
                Append(Ps(k).conversationHistory,
                       [role |-> m.role, content |-> m.content,
                        phase |-> Ps(k).currentPhase])]_vars

\* C28: a request waits for a document generation at most once, and when it
\* answers, the phase of its session is the phase it found at the phase
\* check or that phase's successor in requirements -> design -> tasks ->
\* complete; if the phase it found was complete or had no payload stored,
\* it invoked no generation, returns no document and the Project Session
\* is as it found it.
C28_AtMostOneGenerationAndStep ==
  [][\A r \in ReqIds, k \in Keys :
       /\ (req'[r].pc = "gen" /\ req[r].pc # "gen") =>
            /\ req[r].pc = "chat"
            /\ req[r].generation = "none"
       /\ (req[r].pc = "gen" /\ req'[r].pc # "gen") => req'[r].pc = "done"
       /\ (/\ req[r].pc # "done" /\ req'[r].pc = "done"
           /\ req'[r].status = 200
           /\ req'[r].sessionId = k
           /\ req'[r].before # NoSnapshot)
          => LET b == req'[r].before
                 a == SnapshotOf(Store, k)'
             IN  /\ req'[r].generation \in {"none", "ok", "threw"}
                 /\ \/ a.currentPhase = b.currentPhase
                    \/ /\ req'[r].generation = "ok"
                       /\ <<b.currentPhase, a.currentPhase>> \in
                            {<<"requirements", "design">>, <<"design", "tasks">>,
                             <<"tasks", "complete">>}
                 /\ (\/ b.currentPhase = "complete"
                     \/ PayloadIn(b, b.currentPhase) = None)
                    => /\ req'[r].generation = "none"
                       /\ req'[r].responseData.document = NoDocument
                       /\ a = b]_vars

\* a request that found the phase tasks with its payload stored has
\* generated and left the session in the phase complete
C28_Witness ==
  \E r \in ReqIds :
    /\ Done(r) /\ req[r].status = 200
    /\ req[r].before.currentPhase = "tasks"
    /\ req[r].generation = "ok"
    /\ req[r].responseData.document.type = "tasks"
    /\ SnapshotOf(Store, req[r].sessionId).currentPhase = "complete"

\* a request that found the phase complete, and one that found a phase
\* without its payload, have answered without generating
C28_WitnessSkipped ==
  \E r \in ReqIds :
    /\ Done(r) /\ req[r].status = 200
    /\ req[r].before.currentPhase = "complete"
    /\ req[r].before.tasks # None
    /\ req[r].generation = "none"

C28_WitnessNoPayload ==
  \E r \in ReqIds :
    /\ Done(r) /\ req[r].status = 200
    /\ req[r].before.currentPhase = "design"
    /\ req[r].before.design = None
    /\ req[r].before.requirements # None
    /\ req[r].generation = "none"

\* C29: with requests served one at a time, from its start until its reply
\* is stored a request has appended the user text and nothing else to the
\* log it found, also while it waits for a generation; when it has answered
\* with status 200 it has appended exactly the user text and then the reply
\* it returns.
C29_TwoEntriesPerRequest ==
  \A r \in ReqIds :
    LET k == req[r].sessionId
        user == [role |-> "user", content |-> req[r].userMessage]
        assistant == [role |-> "assistant",
                      content |-> req[r].responseData.content]
    IN  /\ req[r].pc \in {"chat", "gen"} =>
             /\ History(k) = Append(req[r].stored.conversationHistory, user)
             /\ Count(Store, k) = req[r].stored.messageCount + 1
        /\ (Done(r) /\ req[r].status = 200) =>
             /\ History(k) = req[r].stored.conversationHistory
                               \o <<user, assistant>>
             /\ Count(Store, k) = req[r].stored.messageCount + 2

\* the second request of a session has answered after a generation
C29_Witness ==
  \E r \in ReqIds :
    /\ Done(r) /\ req[r].status = 200
    /\ req[r].generation = "ok"
    /\ Len(req[r].stored.conversationHistory) = 2
    /\ Len(History(req[r].sessionId)) = 4
    /\ History(req[r].sessionId)[3].role = "user"
    /\ History(req[r].sessionId)[4].content = req[r].reply \o Note(req[r].currentPhase)

\* C30: the step in which a request comes back from its document generation
\* never moves the phase of its session to an earlier phase.
C30_NoBackwardUnderConcurrency ==
  [][\A r \in ReqIds, k \in Keys :
       (/\ req[r].pc = "gen" /\ req'[r].pc = "done"
        /\ req[r].sessionId = k
        /\ HasPs(k) /\ HasPs(k)')
       => PhaseRank(Ps(k)'.currentPhase) >= PhaseRank(Ps(k).currentPhase)]_vars

\* C31: with requests on one key interleaving, a session that has a Project
\* Session keeps that same Project Session object in every step, and the
\* Project Session a request in flight holds is the one the store holds.
C31_InitializedAtMostOnce ==
  [][\A k \in Keys :
       HasPs(k) =>
         /\ HasPs(k)'
         /\ getProjectSession(Store, k)' = getProjectSession(Store, k)
         /\ \A r \in ReqIds :
              (req'[r].pc \in {"chat", "gen"} /\ req'[r].sessionId = k)
              => req'[r].projectSession = getProjectSession(Store, k)]_vars

\* two requests are in flight on the key: one found no Project Session and
\* created it, the other started later and found it
C31_Witness ==
  \E r1 \in ReqIds : \E r2 \in ReqIds \ {r1} :
    /\ req[r1].pc \in {"chat", "gen"} /\ req[r2].pc = "chat"
    /\ req[r1].sessionId = "k1" /\ req[r2].sessionId = "k1"
    /\ req[r1].messages = 1 /\ req[r2].messages = 1
    /\ req[r1].stored.projectSession = NoSnapshot
    /\ req[r2].stored.projectSession # NoSnapshot
    /\ req[r1].projectSession = req[r2].projectSession
    /\ req[r1].projectSession = getProjectSession(Store, "k1")

\* a step of setRequirements, setDesign, setTasks or updateProjectPhase on key k
SetterStep(k) ==
  \/ \E v \in Payloads : SetRequirements(k, v) \/ SetDesign(k, v) \/ SetTasks(k, v)
  \/ \E p \in Phases : UpdateProjectPhase(k, p)

\* C32: setRequirements, setDesign, setTasks and updateProjectPhase on a key
\* without a Project Session leave the store, and with it the set of active
\* session keys, unchanged.
C32_NoProjectSessionNoChange ==
  [][\A k \in Keys :
       (~HasPs(k) /\ SetterStep(k))
       => /\ UNCHANGED <<sessions, ctx, pss>>
          /\ getActiveSessions(Store)' = getActiveSessions(Store)]_vars

\* what the four operations do on a key without a Project Session: with a
\* record for the key they leave the store unchanged; without one they
\* create its fresh empty record, so the key becomes active, store no phase
\* or payload, and change no other key's record.
NoProjectSessionAtMostFreshRecord ==
  [][\A k \in Keys :
       (~HasPs(k) /\ SetterStep(k))
       => /\ Has(Store, k) => UNCHANGED <<sessions, ctx, pss>>
          /\ ~Has(Store, k) =>
               /\ RecordOf(Store, k)' = FreshRecord
               /\ getActiveSessions(Store)' = getActiveSessions(Store) \cup {k}
          /\ ~HasPs(k)'
          /\ pss' = pss
          /\ \A k2 \in Keys \ {k} : SameRecord(k2)]_vars

\* a setter was called on "k1", which has a record with no Project Session
\* that only such a call can have created, while "k2" holds a message
SetterCreatedRecord ==
  /\ called["k1"] # {}
  /\ Has(Store, "k1") /\ ~HasPs("k1")
  /\ RecordOf(Store, "k1") = FreshRecord
  /\ Count(Store, "k2") = 1

\* C33: pruneOldSessions(h) does not remove a session whose Project Session
\* was last modified no earlier than h hours ago.
C33_RecentProjectChangeSurvivesPrune ==
  [][\A hoursOld \in 0 .. MaxTime, k \in Keys :
       (/\ PruneOldSessions(hoursOld)
        /\ HasPs(k)
        /\ Ps(k).updatedAt >= now - hoursOld)
       => sessions'[k] = sessions[k]]_vars

\* C34: when the response to a request arrives at the page while another
\* chat than the one the request was sent from is shown, the message list
\* shown stays as it was; and the messages saved for every chat other than
\* the one the request was sent from stay as they were.
C34_ReplyOnlyInOriginChat ==
  [][\A r \in ReqIds :
       (/\ client.fetch.state = "served" /\ client.fetch.r = r
        /\ req[r].status = 200
        /\ handleResponse(r))
       => /\ client.currentChatId # client.fetch.chat =>
               client'.messages = client.messages
          /\ \A c \in ChatIds \ {client.fetch.chat} :
               client'.chats[c] = client.chats[c]]_vars

\* C35: a request that supplies no session key resolves a key for which the
\* store holds no record, and which no other request in flight uses.
C35_MintedKeyIsFresh ==
  [][\A r \in ReqIds :
       (/\ req[r].pc = "idle" /\ req'[r].pc = "chat"
        /\ req'[r].supplied = "")
       => /\ ~req'[r].stored.present
          /\ \A r2 \in ReqIds \ {r} :
               req[r2].pc \in {"chat", "gen"}
               => req[r2].sessionId # req'[r].sessionId]_vars

\* C36: importSession with the object the last call of the manager, an
\* exportSession(key), returned leaves the record of the key as it was when
\* it was exported, whatever requests were served on the key in between.
C36_ImportRestoresExport ==
  [][\A k \in Keys :
       (/\ returned.op = "exportSession"
        /\ exported # None
        /\ ctx[exported].sessionId = k
        /\ ImportSession)
       => RecordOf(Store, k)' = returned.record]_vars

\* C37: every addMessage raises the message count of the session by one,
\* also when the log is trimmed; the log holds min(message count, cap)
\* entries; and getContextSummary reports the message count.
C37_MessageCountIsTotal ==
  /\ [](\A k \in Keys :
          Has(Store, k) =>
             /\ Len(History(k)) = Min(Ctx(Store, k).messageCount,
                                      maxMessagesPerSession)
             /\ getContextSummary(Store, k).messages = Ctx(Store, k).messageCount)
  /\ [][\A k \in Keys, role \in Roles, content \in UserTexts :
          AddMessage(k, role, content) =>
             Ctx(Store, k)'.messageCount = Count(Store, k) + 1]_vars

\* C38: a step of isPhaseComplete, getProjectSession, getConversationHistory,
\* getContextSummary, exportSession or getActiveSessions leaves the Map and
\* the record of every key as they were; a key without a record still has
\* none.
C38_QueriesLeaveStoreUnchanged ==
  [][QueryOp(SuppliedKeys) =>
       /\ sessions' = sessions
       /\ \A k \in Keys :
            /\ SameRecord(k)
            /\ RecordOf(Store, k)' = RecordOf(Store, k)
       /\ getActiveSessions(Store)' = getActiveSessions(Store)]_vars

\* getContextSummary looked up a key without a record, and the key still
\* has none while the other key holds its session
C38_Witness ==
  /\ returned.op = "getContextSummary"
  /\ returned.record = NoRecord
  /\ ~Has(Store, "k2")
  /\ HasPs("k1") /\ Count(Store, "k1") = 2
  /\ Ps("k1").requirements = 1

====
